---- MODULE Spec2Model ----
(***************************************************************************)
(* Model of the `vol` command line tool (src/src/main.rs): one invocation  *)
(* parses its argument into an f32 fraction, looks up the default output   *)
(* device and performs a volume write followed by a derived mute write.    *)
(*                                                                         *)
(* Strings are sequences of one-character strings.  f32 values are         *)
(* modelled bit-exactly as sign / significand / exponent records, with the *)
(* IEEE-754 round-to-nearest-even rule, NaN, infinities and signed zeros.  *)
(***************************************************************************)
EXTENDS Integers, Sequences, FiniteSets, TLC

(***************************************************************************)
(* Bounds of the model.                                                    *)
(***************************************************************************)
\* Longest argument string enumerated exhaustively over Alphabet.
MaxLen == 3
\* Device identifiers the OS may hand out are 0..MaxDeviceId.
MaxDeviceId == 1

(***************************************************************************)
(* f32 arithmetic                                                          *)
(***************************************************************************)
\* A finite non-zero f32 is m * 2^e with 2^23 <= m < 2^24 (normal) or
\* e = EMin and m < 2^23 (subnormal).
Two23 == 2^23
Two24 == 2^24
EMin == 0 - 149
EMax == 127 - 23

NaN == [k |-> "nan", s |-> 0, m |-> 0, e |-> 0]
Inf(s) == [k |-> "inf", s |-> s, m |-> 0, e |-> 0]
Zero(s) == [k |-> "zero", s |-> s, m |-> 0, e |-> 0]
Fin(s, m, e) == [k |-> "fin", s |-> s, m |-> m, e |-> e]

\* Final rounding step: the exact value is (q + r/den) * 2^e with 0 <= r < den;
\* round to nearest, ties to even, renormalise, overflow to infinity.
RoundQR(s, q, r, den, e) ==
    LET up == (2 * r > den) \/ (2 * r = den /\ q % 2 = 1)
        q1 == IF up THEN q + 1 ELSE q
        m1 == IF q1 = Two24 THEN Two23 ELSE q1
        e1 == IF q1 = Two24 THEN e + 1 ELSE e
    IN  IF m1 = 0 THEN Zero(s)
        ELSE IF e1 > EMax THEN Inf(s)
        ELSE Fin(s, m1, e1)

\* num/den * 2^e has more than 24 significant bits before the binary point:
\* drop low bits by doubling the divisor.
RECURSIVE ShiftDown(_, _, _, _)
ShiftDown(s, num, den, e) ==
    IF num \div den < Two24
    THEN RoundQR(s, num \div den, num % den, den, e)
    ELSE ShiftDown(s, num, 2 * den, e + 1)

\* Long division, one quotient bit at a time, until the significand is
\* normalised or the exponent reaches the subnormal range.
RECURSIVE ShiftUp(_, _, _, _, _)
ShiftUp(s, q, r, den, e) ==
    IF q >= Two23 \/ e = EMin
    THEN RoundQR(s, q, r, den, e)
    ELSE LET bit == IF 2 * r >= den THEN 1 ELSE 0
         IN  ShiftUp(s, 2 * q + bit, 2 * r - bit * den, den, e - 1)

\* The f32 nearest to (-1)^s * (num/den) * 2^e, for 0 <= num < 2^30 and
\* 0 < den < 2^30.
RoundRat(s, num, den, e) ==
    IF num = 0 THEN Zero(s)
    ELSE IF num \div den >= Two24 THEN ShiftDown(s, num, den, e)
    ELSE ShiftUp(s, num \div den, num % den, den, e)

\* The f32 value of a non-negative integer literal such as 100.0.
F32OfNat(n) == RoundRat(0, n, 1, 0)

\* x / d for a finite positive integer divisor d (IEEE division is correctly
\* rounded, so the quotient is the f32 nearest to the exact quotient).
F32DivNat(x, d) ==
    CASE x.k = "nan" -> NaN
      [] x.k = "inf" -> Inf(x.s)
      [] x.k = "zero" -> Zero(x.s)
      [] OTHER -> RoundRat(x.s, x.m, d, x.e)

\* Magnitude order of two finite non-zero values (both normalised, so the
\* order is lexicographic on exponent, significand).
MagLt(a, b) == a.e < b.e \/ (a.e = b.e /\ a.m < b.m)

\* IEEE a < b.
F32Lt(a, b) ==
    CASE a.k = "nan" \/ b.k = "nan" -> FALSE
      [] a.k = "zero" /\ b.k = "zero" -> FALSE
      [] a.k = "zero" -> b.s = 0
      [] b.k = "zero" -> a.s = 1
      [] a.s # b.s -> a.s = 1
      [] a.k = "inf" /\ b.k = "inf" -> FALSE
      [] a.k = "inf" -> a.s = 1
      [] b.k = "inf" -> b.s = 0
      [] OTHER -> IF a.s = 0 THEN MagLt(a, b) ELSE MagLt(b, a)

\* IEEE a == b: NaN equals nothing, -0.0 equals +0.0.
F32Eq(a, b) ==
    CASE a.k = "nan" \/ b.k = "nan" -> FALSE
      [] a.k = "zero" /\ b.k = "zero" -> TRUE
      [] OTHER -> a = b

\* IEEE a <= b.
F32Le(a, b) == F32Lt(a, b) \/ F32Eq(a, b)

(***************************************************************************)
(* str::parse::<f32>                                                       *)
(***************************************************************************)
Digits == {"0", "1", "2", "3", "4", "5", "6", "7", "8", "9"}

DigitVal(c) ==
    CASE c = "0" -> 0 [] c = "1" -> 1 [] c = "2" -> 2 [] c = "3" -> 3
      [] c = "4" -> 4 [] c = "5" -> 5 [] c = "6" -> 6 [] c = "7" -> 7
      [] c = "8" -> 8 [] c = "9" -> 9

\* ASCII lower-casing of the letters that occur in "nan", "inf", "infinity".
Lower(c) ==
    CASE c = "N" -> "n" [] c = "A" -> "a" [] c = "I" -> "i" [] c = "F" -> "f"
      [] c = "T" -> "t" [] c = "Y" -> "y" [] OTHER -> c

LowerStr(s) == [i \in 1..Len(s) |-> Lower(s[i])]

RECURSIVE DigitsToNat(_)
DigitsToNat(ds) ==
    IF ds = <<>> THEN 0
    ELSE 10 * DigitsToNat(SubSeq(ds, 1, Len(ds) - 1)) + DigitVal(ds[Len(ds)])

RECURSIVE Pow10(_)
Pow10(n) == IF n = 0 THEN 1 ELSE 10 * Pow10(n - 1)

\* Index just past the run of digits of s that starts at index i.
DigitsEnd(s, i) ==
    CHOOSE j \in i..(Len(s) + 1) :
        /\ \A k \in i..(j - 1) : s[k] \in Digits
        /\ j = Len(s) + 1 \/ s[j] \notin Digits

\* Leading zeros carry no value; stripping them keeps the digit count small.
RECURSIVE StripZeros(_)
StripZeros(ds) ==
    IF ds # <<>> /\ ds[1] = "0" THEN StripZeros(Tail(ds)) ELSE ds

\* The decimal grammar: digits [ "." digits ] [ ("e"|"E") [sign] digits ],
\* with at least one significand digit, consuming the whole of s.  Yields
\* the significand digits and the decimal exponent of their last digit.
\* i1: end of the integer digits; i2: end of the fraction; j: first exponent
\* digit; i3: end of the number.
NumberParts(s, i1, i2, j, i3) ==
    LET int  == SubSeq(s, 1, i1 - 1)
        frac == SubSeq(s, i1 + 1, i2 - 1)
        hasE == i2 <= Len(s) /\ s[i2] \in {"e", "E"}
        ok   == /\ Len(int) + Len(frac) > 0
                /\ hasE => i3 > j
                /\ i3 = Len(s) + 1
    IN  IF ok
        THEN [ok |-> TRUE,
              digits |-> StripZeros(int \o frac),
              fraclen |-> Len(frac),
              expdigits |-> IF hasE THEN StripZeros(SubSeq(s, j, i3 - 1)) ELSE <<>>,
              expneg |-> hasE /\ s[i2 + 1] = "-"]
        ELSE [ok |-> FALSE, digits |-> <<>>, fraclen |-> 0,
              expdigits |-> <<>>, expneg |-> FALSE]

NumberExp(s, i1, i2, j) ==
    NumberParts(s, i1, i2, j,
                IF i2 <= Len(s) /\ s[i2] \in {"e", "E"}
                THEN DigitsEnd(s, j) ELSE i2)

NumberFrac(s, i1, i2) ==
    NumberExp(s, i1, i2,
              IF i2 + 1 <= Len(s) /\ s[i2 + 1] \in {"+", "-"}
              THEN i2 + 2 ELSE i2 + 1)

NumberInt(s, i1) ==
    NumberFrac(s, i1,
               IF i1 <= Len(s) /\ s[i1] = "." THEN DigitsEnd(s, i1 + 1) ELSE i1)

ParseNumber(s) == NumberInt(s, DigitsEnd(s, 1))

\* "nan", "inf" and "infinity" in any letter case.
ParseInfNan(s, negative) ==
    LET l == LowerStr(s)
    IN  IF l = <<"n", "a", "n">> THEN <<NaN>>
        ELSE IF l = <<"i", "n", "f">>
                \/ l = <<"i", "n", "f", "i", "n", "i", "t", "y">>
        THEN <<Inf(IF negative THEN 1 ELSE 0)>>
        ELSE <<>>

\* Exponents of more than MaxExpDigits digits, and significands of more than
\* MaxSigDigits digits, are outside the arithmetic of this model.
MaxSigDigits == 9
MaxExpDigits == 3

\* The f32 nearest to (-1)^sgn * D * 10^x, where D has nd digits.
DecimalToF32(sgn, D, nd, x) ==
    IF D = 0 THEN Zero(sgn)
    ELSE IF x >= 39 THEN Inf(sgn)
    ELSE IF nd + x <= 0 - 46 THEN Zero(sgn)
    ELSE IF x >= 0 THEN RoundRat(sgn, D * Pow10(x), 1, 0)
    ELSE RoundRat(sgn, D, Pow10(0 - x), 0)

\* Whether DecimalToF32 computes the value within 31-bit integers.
DecimalInModel(D, nd, x) ==
    \/ D = 0
    \/ x >= 39
    \/ nd + x <= 0 - 46
    \/ x >= 0 /\ nd + x <= MaxSigDigits
    \/ x < 0 /\ 0 - x <= MaxSigDigits

\* The decimal exponent of the last significand digit of a parsed number.
DecExp(n) ==
    (IF n.expneg THEN 0 - DigitsToNat(n.expdigits) ELSE DigitsToNat(n.expdigits))
        - n.fraclen

\* The value of the text after the sign, n being what ParseNumber made of it.
ParseUnsigned(rest, negative, n) ==
    IF rest = <<>> THEN <<>>
    ELSE IF n.ok
    THEN <<DecimalToF32(IF negative THEN 1 ELSE 0,
                        DigitsToNat(n.digits), Len(n.digits), DecExp(n))>>
    ELSE ParseInfNan(rest, negative)

\* The text of s after an optional sign.
Unsigned(s) == IF s # <<>> /\ s[1] \in {"-", "+"} THEN Tail(s) ELSE s

\* input.parse::<f32>(): <<v>> on success, <<>> on a ParseFloatError.
ParseF32(s) ==
    IF s = <<>> THEN <<>>
    ELSE ParseUnsigned(Unsigned(s), s[1] = "-", ParseNumber(Unsigned(s)))

NumberInModel(n) ==
    n.ok => /\ Len(n.digits) <= MaxSigDigits
            /\ Len(n.expdigits) <= MaxExpDigits
            /\ DecimalInModel(DigitsToNat(n.digits), Len(n.digits), DecExp(n))

\* The argument strings whose value the model computes exactly.
InModel(s) == NumberInModel(ParseNumber(Unsigned(s)))

(***************************************************************************)
(* Inputs                                                                  *)
(***************************************************************************)
Alphabet == {"0", "1", "5", ".", "-", "+", "a"}

StringsUpTo(n) == UNION {[1..k -> Alphabet] : k \in 0..n}

\* Upper end of the accepted percentage range, the literal 100.0; the
\* divisor of line 69 is the same literal.
Hundred == 100

DigitChar(d) ==
    CASE d = 0 -> "0" [] d = 1 -> "1" [] d = 2 -> "2" [] d = 3 -> "3"
      [] d = 4 -> "4" [] d = 5 -> "5" [] d = 6 -> "6" [] d = 7 -> "7"
      [] d = 8 -> "8" [] d = 9 -> "9"

\* The decimal string form of a natural number.
RECURSIVE NatToStr(_)
NatToStr(n) ==
    IF n < 10 THEN <<DigitChar(n)>>
    ELSE Append(NatToStr(n \div 10), DigitChar(n % 10))

IntStrings == {NatToStr(p) : p \in 0..Hundred}

\* Argument strings of the tests and of the specification's scenarios, and
\* strings that exercise exponents, special values and rounding.
Notable ==
    { <<"a", "b", "c">>, <<"-", "1", "0">>, <<"2", "0", "0">>,
      <<"1", "5", "0">>, <<"-", "1">>, <<"1", "0", "1">>,
      <<"N", "a", "N">>, <<"n", "a", "n">>, <<"-", "n", "a", "n">>,
      <<"i", "n", "f">>, <<"-", "i", "n", "f">>,
      <<"I", "n", "f", "i", "n", "i", "t", "y">>,
      <<"1", "e", "2">>, <<"1", "E", "+", "2">>, <<"1", "e", "3">>,
      <<"5", "e", "-", "1">>, <<"1", "e", "3", "9">>, <<"1", "e">>,
      <<"-", "0", ".", "0">>, <<"-", "1", "e", "-", "4", "7">>,
      <<"1", "e", "-", "9", "9">>,
      <<"3", "3", ".", "3">>, <<"9", "9", ".", "9", "9", "9">>,
      <<"1", "0", "0", ".", "0", "0", "0", "0", "0", "1">>,
      <<"1", "0", "0", ".", "0", "0", "0", "0", "1">>,
      <<" ", "5", "0">>, <<"5", "0", "%">>, <<"0", "x", "1", "0">> }

Inputs == {s \in StringsUpTo(MaxLen) \cup IntStrings \cup Notable : InModel(s)}

\* Argument strings of the concurrent runs.
ConcInputs == { <<"0">>, <<"5", "0">>, <<"a">> }

ProgName == <<"v", "o", "l">>

Procs == {1, 2}

DeviceIds == 0..MaxDeviceId

\* OSStatus values the Core Audio calls may return; 0 is success.
StatusCodes == {0, 0 - 1, 0 - 50}

\* Volume / mute registers a device may hold before the run.
InitRegs ==
    {[volume |-> v, mute |-> b] :
        v \in {Zero(0), RoundRat(0, 1, 4, 0)}, b \in BOOLEAN}

(***************************************************************************)
(* The program                                                             *)
(***************************************************************************)
VARIABLES
    argv,       \* argv[p]: the command line of invocation p, program name first
    pc,         \* pc[p]: where invocation p is in main
    volume,     \* volume[p]: main's local `volume`, <<>> before it is bound
    device_id,  \* device_id[p]: main's local `device_id`, <<>> before it is bound
    err,        \* err[p]: the VolumeError the invocation failed with, or <<>>
    stderr,     \* stderr[p]: the lines printed to standard error
    exit_code,  \* exit_code[p]: <<c>> once the process has exited with code c
    calls,      \* calls[p]: the Core Audio calls invocation p has made, in order
    hw,         \* hw[d]: the volume and mute registers of device d
    hw0         \* the registers when the run began

vars == <<argv, pc, volume, device_id, err, stderr, exit_code, calls, hw, hw0>>

SYSTEM_OBJECT == 1

InvalidInput(msg) == [kind |-> "InvalidInput", code |-> 0, msg |-> msg]
DeviceError(code) == [kind |-> "DeviceError", code |-> code, msg |-> ""]
SetError(code) == [kind |-> "SetError", code |-> code, msg |-> ""]

\* impl fmt::Display for VolumeError
Display(e) ==
    CASE e.kind = "InvalidInput" -> [text |-> e.msg, code |-> <<>>]
      [] e.kind = "DeviceError" ->
            [text |-> "Failed to get audio device: ", code |-> <<e.code>>]
      [] e.kind = "SetError" ->
            [text |-> "Failed to set volume: ", code |-> <<e.code>>]

Ok(v) == [ok |-> TRUE, v |-> <<v>>, e |-> <<>>]
Err(e) == [ok |-> FALSE, v |-> <<>>, e |-> <<e>>]

\* Mutant of InRange: the lower bound is not checked.
InRange_no_lower(percent) == F32Le(percent, F32OfNat(Hundred))

\* Mutant of InRange: the range excludes its upper end (0.0..100.0).
InRange_exclusive(percent) ==
    F32Le(Zero(0), percent) /\ F32Lt(percent, F32OfNat(Hundred))

\* (0.0..=100.0).contains(&percent)
InRange(percent) ==
    F32Le(Zero(0), percent) /\ F32Le(percent, F32OfNat(Hundred))

\* Mutant of parse_volume: the percentage is returned without the division.
parse_volume_no_div(input) ==
    LET parsed == ParseF32(input)
    IN  IF parsed = <<>> THEN Err(InvalidInput("Invalid number"))
        ELSE IF ~InRange(parsed[1])
        THEN Err(InvalidInput("Volume must be 0-100"))
        ELSE Ok(parsed[1])

parse_volume(input) ==
    LET parsed == ParseF32(input)
    IN  IF parsed = <<>> THEN Err(InvalidInput("Invalid number"))
        ELSE IF ~InRange(parsed[1])
        THEN Err(InvalidInput("Volume must be 0-100"))
        ELSE Ok(F32DivNat(parsed[1], Hundred))

\* Mutant of get_default_device: the status is not looked at.
get_default_device_unchecked(status, id) == Ok(id)

\* Mutant of get_default_device: the identifier returned is the initial value
\* of the local, not what the OS stored.
get_default_device_stale(status, id) ==
    IF status # 0 THEN Err(DeviceError(status)) ELSE Ok(0)

\* get_default_device, given what AudioObjectGetPropertyData returned.
get_default_device(status, id) ==
    IF status # 0 THEN Err(DeviceError(status)) ELSE Ok(id)

\* The u32 that set_mute hands to Core Audio.
mute_value(muted) == IF muted THEN 1 ELSE 0

\* Mutant of set_mute: the status is not looked at.
set_mute_unchecked(status) == Ok(0)

\* set_mute, given what AudioObjectSetPropertyData returned.
set_mute(status) ==
    IF status # 0 THEN Err(SetError(status)) ELSE Ok(0)

\* Mutant of volume_write: no early return on a failed write.
volume_write_unchecked(status) == Ok(0)

\* The early return of set_volume, given what the volume write returned.
volume_write(status) ==
    IF status # 0 THEN Err(SetError(status)) ELSE Ok(0)

\* Mutant of MuteFor: the bits are compared, so -0.0 is not zero.
MuteFor_bits(v) == v = Zero(0)

\* Mutant of MuteFor: the comparison is inverted.
MuteFor_inverted(v) == F32Lt(Zero(0), v)

\* The `volume == 0.0` that set_volume passes to set_mute.
MuteFor(v) == F32Eq(v, Zero(0))

\* Records of the Core Audio calls.
GetCall(status, out) ==
    [op |-> "get_default_device", obj |-> SYSTEM_OBJECT, status |-> status,
     out |-> out, vol |-> <<>>, mute |-> <<>>]
VolumeCall(dev, v, status) ==
    [op |-> "set_volume", obj |-> dev, status |-> status,
     out |-> <<>>, vol |-> <<v>>, mute |-> <<>>]
MuteCall(dev, mv, status) ==
    [op |-> "set_mute", obj |-> dev, status |-> status,
     out |-> <<>>, vol |-> <<>>, mute |-> <<mv>>]

\* eprintln!("{}", e); std::process::exit(1)
Fail(self, e) ==
    /\ err' = [err EXCEPT ![self] = <<e>>]
    /\ stderr' = [stderr EXCEPT ![self] = Append(@, Display(e))]
    /\ exit_code' = [exit_code EXCEPT ![self] = <<1>>]
    /\ pc' = [pc EXCEPT ![self] = "exited"]

\* main returns: the process exits with code 0.
Return(self) ==
    /\ exit_code' = [exit_code EXCEPT ![self] = <<0>>]
    /\ pc' = [pc EXCEPT ![self] = "exited"]
    /\ UNCHANGED <<err, stderr>>

\* Mutant of main_args: a missing argument is a usage error.
main_args_usage(self) ==
    /\ self \in DOMAIN pc
    /\ pc[self] = "args"
    /\ IF Len(argv[self]) >= 2
       THEN /\ pc' = [pc EXCEPT ![self] = "parse"]
            /\ UNCHANGED <<err, stderr, exit_code>>
       ELSE Fail(self, InvalidInput("Usage: vol <percentage>"))
    /\ UNCHANGED <<argv, volume, device_id, calls, hw, hw0>>

\* std::env::args().nth(1)
main_args(self) ==
    /\ self \in DOMAIN pc
    /\ pc[self] = "args"
    /\ IF Len(argv[self]) >= 2
       THEN /\ pc' = [pc EXCEPT ![self] = "parse"]
            /\ UNCHANGED <<err, stderr, exit_code>>
       ELSE Return(self)
    /\ UNCHANGED <<argv, volume, device_id, calls, hw, hw0>>

\* let volume = match parse_volume(&input) { ... }
main_parse(self) ==
    /\ self \in DOMAIN pc
    /\ pc[self] = "parse"
    /\ LET r == parse_volume(argv[self][2])
       IN  IF r.ok
           THEN /\ volume' = [volume EXCEPT ![self] = r.v]
                /\ pc' = [pc EXCEPT ![self] = "get_device"]
                /\ UNCHANGED <<err, stderr, exit_code>>
           ELSE /\ Fail(self, r.e[1])
                /\ UNCHANGED volume
    /\ UNCHANGED <<argv, device_id, calls, hw, hw0>>

\* let device_id = match get_default_device() { ... }; the OS chooses the
\* status it returns and, on success, the identifier it stores.
main_get_device(self) ==
    /\ self \in DOMAIN pc
    /\ pc[self] = "get_device"
    /\ \E status \in StatusCodes, id \in DeviceIds :
         LET r == get_default_device(status, id)
             out == IF status = 0 THEN <<id>> ELSE <<>>
         IN  /\ calls' = [calls EXCEPT ![self] = Append(@, GetCall(status, out))]
             /\ IF r.ok
                THEN /\ device_id' = [device_id EXCEPT ![self] = r.v]
                     /\ pc' = [pc EXCEPT ![self] = "set_volume"]
                     /\ UNCHANGED <<err, stderr, exit_code>>
                ELSE /\ Fail(self, r.e[1])
                     /\ UNCHANGED device_id
    /\ UNCHANGED <<argv, volume, hw, hw0>>

\* set_volume up to its early return: the volume write.  A write that returns
\* status 0 has stored the value in the device's register; a write that
\* returns another status has stored nothing.
set_volume_write(self) ==
    /\ self \in DOMAIN pc
    /\ pc[self] = "set_volume"
    /\ \E status \in StatusCodes :
         LET dev == device_id[self][1]
             v == volume[self][1]
             r == volume_write(status)
         IN  /\ calls' = [calls EXCEPT ![self] = Append(@, VolumeCall(dev, v, status))]
             /\ hw' = IF status = 0 THEN [hw EXCEPT ![dev].volume = v] ELSE hw
             /\ IF r.ok
                THEN /\ pc' = [pc EXCEPT ![self] = "set_mute"]
                     /\ UNCHANGED <<err, stderr, exit_code>>
                ELSE Fail(self, r.e[1])
    /\ UNCHANGED <<argv, volume, device_id, hw0>>

\* The rest of set_volume: set_mute(device_id, volume == 0.0)?, Ok(()), and
\* main's handling of the result.
set_volume_mute(self) ==
    /\ self \in DOMAIN pc
    /\ pc[self] = "set_mute"
    /\ \E status \in StatusCodes :
         LET dev == device_id[self][1]
             muted == MuteFor(volume[self][1])
             r == set_mute(status)
         IN  /\ calls' = [calls EXCEPT ![self] =
                             Append(@, MuteCall(dev, mute_value(muted), status))]
             /\ hw' = IF status = 0
                      THEN [hw EXCEPT ![dev].mute = (mute_value(muted) # 0)]
                      ELSE hw
             /\ IF r.ok THEN Return(self) ELSE Fail(self, r.e[1])
    /\ UNCHANGED <<argv, volume, device_id, hw0>>

main(self) ==
    \/ main_args(self)
    \/ main_parse(self)
    \/ main_get_device(self)
    \/ set_volume_write(self)
    \/ set_volume_mute(self)

\* Any started invocation takes its next step.
Next == \E self \in Procs : main(self)

\* The state at process start, for the invocations ps with arguments from ins.
Start(ps, ins) ==
    /\ argv \in [ps -> {<<ProgName>>} \cup {<<ProgName, s>> : s \in ins}]
    /\ pc = [p \in ps |-> "args"]
    /\ volume = [p \in ps |-> <<>>]
    /\ device_id = [p \in ps |-> <<>>]
    /\ err = [p \in ps |-> <<>>]
    /\ stderr = [p \in ps |-> <<>>]
    /\ exit_code = [p \in ps |-> <<>>]
    /\ calls = [p \in ps |-> <<>>]
    /\ \E r \in InitRegs : hw = [d \in DeviceIds |-> r]
    /\ hw0 = hw

\* One invocation, any argument string.
Init == Start({1}, Inputs)

Spec == Init /\ [][Next]_vars

\* One invocation, or two running concurrently against the same devices.
InitConc == \E ps \in {{1}, Procs} : Start(ps, ConcInputs)

SpecConc == InitConc /\ [][Next]_vars

(***************************************************************************)
(* Vocabulary of the properties                                            *)
(***************************************************************************)
Started == DOMAIN pc
HasArg(p) == Len(argv[p]) >= 2
Arg(p) == argv[p][2]
Exited(p) == pc[p] = "exited"
\* main has bound (or failed to bind) `volume`.
Parsed(p) == HasArg(p) /\ pc[p] \notin {"args", "parse"}
Call(p, i) == calls[p][i]
OpsOf(p) == [i \in 1..Len(calls[p]) |-> calls[p][i].op]
FailedWith(p, e) ==
    /\ Exited(p)
    /\ exit_code[p] = <<1>>
    /\ err[p] = <<e>>
    /\ stderr[p] = <<Display(e)>>

\* The value is zero (of either sign).
IsZero(v) == v.k = "zero"
\* The value is a finite number greater than zero.
IsPositive(v) == v.k = "fin" /\ v.s = 0
\* The value lies in [0, 1]: zero, or positive and at most 1.0 = 2^23 * 2^-23.
InUnitInterval(v) ==
    \/ IsZero(v)
    \/ IsPositive(v) /\ (v.e < 0 - 23 \/ (v.e = 0 - 23 /\ v.m = Two23))
\* The value lies outside [0, 100]: NaN, an infinity, negative, or above
\* 100.0 = (100 * 2^17) * 2^-17.
OutsideRange(v) ==
    \/ v.k \in {"nan", "inf"}
    \/ v.k = "fin" /\ v.s = 1
    \/ v.k = "fin" /\ (v.e > 0 - 17 \/ (v.e = 0 - 17 /\ v.m > Hundred * 2^17))
\* v is within half a unit in the last place of num/den, for 0 <= num <= den.
IsNearestF32(v, num, den) ==
    IF num = 0 THEN v = Zero(0)
    ELSE /\ IsPositive(v)
         /\ v.e < 0
         /\ 2 * (v.m * den - num * 2^(0 - v.e)) <= den
         /\ 2 * (num * 2^(0 - v.e) - v.m * den) <= den

\* The string is a decimal number (it matches the decimal grammar).
IsDecimal(s) == ParseNumber(Unsigned(s)).ok
\* The string's value as parsed to f32 lies outside [0, 100].
ParsedOutside(s) == ParseF32(s) # <<>> /\ OutsideRange(ParseF32(s)[1])
\* D * 10^x > 100 for a natural D of nd digits, without leaving 31 bits.
ExceedsHundred(D, nd, x) ==
    IF x >= 0 THEN nd + x >= 4 \/ D * Pow10(x) > Hundred
    ELSE nd > 2 - x /\ D > Pow10(2 - x)
NumberOutside(negative, n) ==
    /\ n.ok
    /\ DigitsToNat(n.digits) # 0
    /\ negative \/ ExceedsHundred(DigitsToNat(n.digits), Len(n.digits), DecExp(n))
\* The decimal number the string denotes lies outside [0, 100].
DecimalOutside(s) == s # <<>> /\ NumberOutside(s[1] = "-", ParseNumber(Unsigned(s)))

RejectedAsInvalid(p) ==
    /\ Exited(p)
    /\ exit_code[p] = <<1>>
    /\ err[p] # <<>>
    /\ err[p][1].kind = "InvalidInput"
    /\ volume[p] = <<>>

(***************************************************************************)
(* C1: every mute write follows a successful volume write of the same      *)
(* invocation to the same device and carries 1 exactly when that write's   *)
(* fraction is zero; once the invocation has ended, every successful       *)
(* volume write of fraction 0 is followed by a mute write of 1 and every   *)
(* one of a fraction above 0 by a mute write of 0.                         *)
(***************************************************************************)
MuteDerivedFromVolume ==
    \A p \in Started : \A i \in 1..Len(calls[p]) :
        /\ Call(p, i).op = "set_mute" =>
              /\ i > 1
              /\ Call(p, i - 1).op = "set_volume"
              /\ Call(p, i - 1).status = 0
              /\ Call(p, i - 1).obj = Call(p, i).obj
              /\ Call(p, i - 1).vol = volume[p]
              /\ Call(p, i).mute[1] \in {0, 1}
              /\ Call(p, i).mute[1] = 1 <=> IsZero(Call(p, i - 1).vol[1])
        /\ (Call(p, i).op = "set_volume" /\ Call(p, i).status = 0 /\ Exited(p)) =>
              /\ i < Len(calls[p])
              /\ Call(p, i + 1).op = "set_mute"
              /\ IsZero(Call(p, i).vol[1]) => Call(p, i + 1).mute = <<1>>
              /\ IsPositive(Call(p, i).vol[1]) => Call(p, i + 1).mute = <<0>>

\* C1 witness: a volume write of -0.0 has been followed by a mute write of 1.
MuteWrittenForNegativeZero ==
    \E p \in Started :
        /\ Len(calls[p]) = 3
        /\ Call(p, 2).vol = <<Zero(1)>>
        /\ Call(p, 3).mute = <<1>>

(***************************************************************************)
(* C2: an invocation with an integer percentage p in 0..100 all of whose   *)
(* OS calls returned 0 has made exactly three calls: the lookup, returning *)
(* d, then the volume write (d, p/100), then the mute write (d, p = 0);    *)
(* it has exited with code 0 and printed nothing.                          *)
(***************************************************************************)
LinearCallSequence ==
    \A p \in Started :
        ( /\ Exited(p)
          /\ HasArg(p)
          /\ Arg(p) \in IntStrings
          /\ \A i \in 1..Len(calls[p]) : Call(p, i).status = 0 ) =>
        /\ exit_code[p] = <<0>>
        /\ err[p] = <<>>
        /\ stderr[p] = <<>>
        /\ OpsOf(p) = <<"get_default_device", "set_volume", "set_mute">>
        /\ Call(p, 1).obj = SYSTEM_OBJECT
        /\ Call(p, 1).out # <<>>
        /\ Call(p, 2).obj = Call(p, 1).out[1]
        /\ IsNearestF32(Call(p, 2).vol[1], DigitsToNat(Arg(p)), Hundred)
        /\ Call(p, 3).obj = Call(p, 1).out[1]
        /\ Call(p, 3).mute = <<IF DigitsToNat(Arg(p)) = 0 THEN 1 ELSE 0>>

\* C2 witness: "50" has run to exit 0 against a device other than 0: the
\* volume written is 0.5 and the mute written is 0.
FiftyPercentDone ==
    \E p \in Started :
        /\ HasArg(p)
        /\ Arg(p) = <<"5", "0">>
        /\ exit_code[p] = <<0>>
        /\ Call(p, 1).out = <<1>>
        /\ Call(p, 2).vol = <<Fin(0, Two23, 0 - 24)>>
        /\ Call(p, 3).mute = <<0>>

(***************************************************************************)
(* C3: an argument that does not parse as a number, or whose parsed value  *)
(* lies outside [0, 100], ends the invocation with exit code 1 and an      *)
(* InvalidInput error, with no OS call made and the devices untouched.     *)
(***************************************************************************)
InvalidInputNeverReachesOS ==
    \A p \in Started :
        (Parsed(p) /\ (ParseF32(Arg(p)) = <<>> \/ ParsedOutside(Arg(p)))) =>
        /\ RejectedAsInvalid(p)
        /\ stderr[p] = <<Display(err[p][1])>>
        /\ calls[p] = <<>>
        /\ device_id[p] = <<>>
        /\ hw = hw0

\* C3 witness: an out-of-range number has been rejected with its message.
OutOfRangeRejected ==
    \E p \in Started :
        /\ Parsed(p)
        /\ ParsedOutside(Arg(p))
        /\ FailedWith(p, InvalidInput("Volume must be 0-100"))

(***************************************************************************)
(* C4: a volume write that returned a status c other than 0 is the last    *)
(* call of its invocation and its only volume write; no mute write was     *)
(* made, the error is SetError(c) and the process has exited with code 1.  *)
(***************************************************************************)
VolumeWriteFailureIsTerminal ==
    \A p \in Started : \A i \in 1..Len(calls[p]) :
        (Call(p, i).op = "set_volume" /\ Call(p, i).status # 0) =>
        /\ OpsOf(p) = <<"get_default_device", "set_volume">>
        /\ FailedWith(p, SetError(Call(p, i).status))

\* C4 witness: the volume write has failed with -50.
VolumeWriteFailed ==
    \E p \in Started :
        /\ Len(calls[p]) = 2
        /\ Call(p, 2).op = "set_volume"
        /\ Call(p, 2).status = 0 - 50
        /\ Exited(p)

(***************************************************************************)
(* C5: a default-device lookup that returned a status c other than 0 is    *)
(* the only call of its invocation: no second attempt, no volume write,    *)
(* no mute write; the error is DeviceError(c) and the exit code is 1.      *)
(***************************************************************************)
LookupFailureIsTerminal ==
    \A p \in Started : \A i \in 1..Len(calls[p]) :
        (Call(p, i).op = "get_default_device" /\ Call(p, i).status # 0) =>
        /\ OpsOf(p) = <<"get_default_device">>
        /\ FailedWith(p, DeviceError(Call(p, i).status))
        /\ device_id[p] = <<>>
        /\ hw = hw0

\* C5 witness: the lookup has failed with -1.
LookupFailed ==
    \E p \in Started :
        /\ Len(calls[p]) = 1
        /\ Call(p, 1).status = 0 - 1
        /\ Exited(p)

(***************************************************************************)
(* C6: when the volume write succeeded and the mute write returned a       *)
(* status c other than 0, the invocation has failed with SetError(c) and   *)
(* exit code 1, the device holds the volume just written and its mute      *)
(* flag is what it was before the run.                                     *)
(***************************************************************************)
MuteFailureLeavesVolumeApplied ==
    \A p \in Started :
        ( /\ Len(calls[p]) = 3
          /\ Call(p, 2).status = 0
          /\ Call(p, 3).status # 0 ) =>
        /\ FailedWith(p, SetError(Call(p, 3).status))
        /\ hw[Call(p, 2).obj].volume = Call(p, 2).vol[1]
        /\ hw[Call(p, 2).obj].mute = hw0[Call(p, 2).obj].mute
        /\ \A d \in DeviceIds \ {Call(p, 2).obj} : hw[d] = hw0[d]

\* C6 witness: the mute write failed after a volume write that changed the
\* device's volume to zero, and the device is left at volume 0 and unmuted.
PartialEffect ==
    \E p \in Started :
        /\ Len(calls[p]) = 3
        /\ Call(p, 3).status # 0
        /\ Exited(p)
        /\ hw[Call(p, 2).obj].volume # hw0[Call(p, 2).obj].volume
        /\ IsZero(hw[Call(p, 2).obj].volume)
        /\ ~hw[Call(p, 2).obj].mute

(***************************************************************************)
(* C7: an invocation without arguments exits with code 0 in its first step *)
(* and does nothing else: no OS call, no error, no output, the devices     *)
(* as they were.                                                           *)
(***************************************************************************)
NoArgumentIsNoOp ==
    \A p \in Started :
        (~HasArg(p) /\ pc[p] # "args") =>
        /\ Exited(p)
        /\ exit_code[p] = <<0>>
        /\ calls[p] = <<>>
        /\ err[p] = <<>>
        /\ stderr[p] = <<>>
        /\ volume[p] = <<>>
        /\ device_id[p] = <<>>
        /\ hw = hw0

\* C7 witness: an invocation without arguments has exited.
NoArgumentExited ==
    \E p \in Started : ~HasArg(p) /\ Exited(p) /\ exit_code[p] = <<0>>

VolumeWritesWithinUnit ==
    \A p \in Started : \A i \in 1..Len(calls[p]) :
        Call(p, i).op = "set_volume" => InUnitInterval(Call(p, i).vol[1])

\* C9 witness: a volume write has carried 1.0, the upper end.
FullVolumeWritten ==
    \E p \in Started : \E i \in 1..Len(calls[p]) :
        Call(p, i).op = "set_volume" /\ Call(p, i).vol = <<Fin(0, Two23, 0 - 23)>>

(***************************************************************************)
(* C10: an invocation that runs alone and exits with code 0 leaves its     *)
(* device with mute = (volume = 0); when two invocations have both exited  *)
(* with code 0 on the same device, the device holds the volume of one of   *)
(* them and the mute flag of one of them, which need not be the same one.  *)
(***************************************************************************)
Succeeded(p) == HasArg(p) /\ exit_code[p] = <<0>>

PairNotAtomic ==
    /\ \A p \in Started :
          (Started = {p} /\ Succeeded(p)) =>
          hw[device_id[p][1]].mute = IsZero(hw[device_id[p][1]].volume)
    /\ \A p, q \in Started :
          (p # q /\ Succeeded(p) /\ Succeeded(q) /\ device_id[p] = device_id[q]) =>
          /\ hw[device_id[p][1]].volume \in {volume[p][1], volume[q][1]}
          /\ hw[device_id[p][1]].mute \in {IsZero(volume[p][1]), IsZero(volume[q][1])}

\* C10 witness: two invocations have both exited with code 0 on the same
\* device, which is left at volume 0 and not muted.
InterleavedWrites ==
    /\ Started = Procs
    /\ \A p \in Started : Succeeded(p)
    /\ device_id[1] = device_id[2]
    /\ IsZero(hw[device_id[1][1]].volume)
    /\ ~hw[device_id[1][1]].mute

====
